---- MODULE Spec2Model ----
(***************************************************************************)
(* Camera & interaction engine of canvas-lab (hook useCanvasInteraction,   *)
(* utilities cameraUtils, editor store useEditorStore).                    *)
(*                                                                         *)
(* Numbers.  JavaScript numbers are modelled as exact rationals <<n, d>>   *)
(* in lowest terms with d > 0; floating-point rounding is abstracted.      *)
(* Screen (viewport) coordinates, wheel deltas and buttons are integers.   *)
(*                                                                         *)
(* React.  `camera` is the hook's camera state with every queued setCamera *)
(* update applied in order (a value replaces, an updater function is       *)
(* applied to the previous value).  `cameraRef` is cameraRef.current: it   *)
(* is only refreshed by the passive effect that runs after React has       *)
(* rendered, which happens in a later task than the handler that queued    *)
(* the update; action Render models that commit.  Store updates (zustand)  *)
(* re-render synchronously, so the focus effect's cleanup and re-run are   *)
(* part of the store-changing action.                                      *)
(***************************************************************************)
EXTENDS Integers, Sequences, FiniteSets, TLC

VARIABLES
    camera,         \* useState camera {x, y, zoom}
    cameraRef,      \* cameraRef.current
    cursor,         \* useState cursor: "default" | "grab" | "grabbing"
    isPanning,      \* isPanning.current
    panStart,       \* panStart.current   (screen point)
    pointerStart,   \* pointerStart.current (screen point)
    spacePressed,   \* spacePressed.current
    captured,        \* the viewport element holds the pointer capture
    threads,        \* store.threads: world points of the threads, in creation order
    focusTarget,    \* store.focusTarget: <<>> (null) or <<world point>>
    selectedThreadId, \* store.selectedThreadId: 0 (null) or the id of a thread; the
                    \* k-th thread created has id k
    anim,           \* closure of the live focus effect: <<>> or <<[tx, ty, animationFrameId]>>
    rafQueue,       \* pending requestAnimationFrame callbacks: [id, tx, ty]
    clearCalls,     \* number of clearFocusTarget() calls made by animate
    mounted,        \* the component using the hook is mounted
    elRect,         \* viewportRef.current.getBoundingClientRect(): [width, height]
    spaceHeld,      \* the space key is physically down (the keyboard, not the hook)
    nEvents         \* camera-moving inputs, clicks and focus requests handled so far

vars == <<camera, cameraRef, cursor, isPanning, panStart, pointerStart, spacePressed,
          captured, threads, focusTarget, selectedThreadId, anim, rafQueue, clearCalls,
          mounted,
          elRect, spaceHeld, nEvents>>

gestureVars == <<cursor, isPanning, panStart, pointerStart, spacePressed, captured>>
storeVars == <<threads, focusTarget, selectedThreadId>>
animVars == <<anim, rafQueue, clearCalls>>

(***************************************************************************)
(* Bounds of the model                                                     *)
(***************************************************************************)
MaxEvents == 2
MaxDen == 30000

(***************************************************************************)
(* Exact rational arithmetic                                               *)
(***************************************************************************)
Abs(i) == IF i < 0 THEN -i ELSE i

RECURSIVE GCD(_, _)
GCD(a, b) == IF b = 0 THEN a ELSE GCD(b, a % b)

LCM(a, b) == (a \div GCD(a, b)) * b

\* Op applied to the values of a and b, each evaluated once
Strict1(Op(_), a) == CHOOSE r \in {Op(x) : x \in {a}} : TRUE
Strict2(Op(_, _), a, b) == CHOOSE r \in {Op(x, y) : x \in {a}, y \in {b}} : TRUE

NormG(n, d, g) == IF d < 0 THEN <<(-n) \div g, (-d) \div g>> ELSE <<n \div g, d \div g>>
NormV(n, d) == Strict1(LAMBDA g : NormG(n, d, g), GCD(Abs(n), Abs(d)))
Norm(n, d) == Strict2(NormV, n, d)

R(i) == <<i, 1>>
RAddL(p, q, l) == Norm(p[1] * (l \div p[2]) + q[1] * (l \div q[2]), l)
RAddV(p, q) == Strict1(LAMBDA l : RAddL(p, q, l), LCM(p[2], q[2]))
RAdd(p, q) == Strict2(RAddV, p, q)
RNegV(p) == <<-p[1], p[2]>>
RNeg(p) == Strict1(RNegV, p)
RSub(p, q) == RAdd(p, RNeg(q))
RMulG(p, q, g1, g2) ==
    Norm((p[1] \div g1) * (q[1] \div g2), (p[2] \div g2) * (q[2] \div g1))
RMulV(p, q) ==
    Strict2(LAMBDA g1, g2 : RMulG(p, q, g1, g2), GCD(Abs(p[1]), q[2]), GCD(Abs(q[1]), p[2]))
RMul(p, q) == Strict2(RMulV, p, q)
RInvV(q) == Norm(q[2], q[1])
RDiv(p, q) == RMul(p, Strict1(RInvV, q))
RLt(p, q) == RSub(p, q)[1] < 0
RLe(p, q) == RSub(p, q)[1] <= 0
RAbsV(p) == <<Abs(p[1]), p[2]>>
RAbs(p) == Strict1(RAbsV, p)
RMinV(p, q) == IF RLt(q, p) THEN q ELSE p
RMin(p, q) == Strict2(RMinV, p, q)
RMaxV(p, q) == IF RLt(p, q) THEN q ELSE p
RMax(p, q) == Strict2(RMaxV, p, q)

(***************************************************************************)
(* cameraUtils.ts                                                          *)
(***************************************************************************)
MIN_ZOOM == Norm(25, 100)
MAX_ZOOM == Norm(30, 10)
DRAG_THRESHOLD == 3
ZOOM_SENSITIVITY == Norm(5, 1000)

\* clamp that forgets the lower bound
clamp_NoMin(value, min, max) == RMin(value, max)
clamp(value, min, max) == RMin(RMax(value, min), max)

viewportToWorld(viewportX, viewportY, cam) ==
    [x |-> RAdd(cam.x, RDiv(viewportX, cam.zoom)),
     y |-> RAdd(cam.y, RDiv(viewportY, cam.zoom))]

\* world-to-viewport conversion that forgets the scale
worldToViewport_NoZoom(worldX, worldY, cam) ==
    [x |-> RSub(worldX, cam.x),
     y |-> RSub(worldY, cam.y)]

worldToViewport(worldX, worldY, cam) ==
    [x |-> RMul(RSub(worldX, cam.x), cam.zoom),
     y |-> RMul(RSub(worldY, cam.y), cam.zoom)]

\* squared distance that forgets to square the vertical difference
squaredDistance_NoSquareY(x1, y1, x2, y2) ==
    LET dx == x2 - x1
        dy == y2 - y1
    IN  dx * dx + dy

squaredDistance(x1, y1, x2, y2) ==
    LET dx == x2 - x1
        dy == y2 - y1
    IN  dx * dx + dy * dy

(***************************************************************************)
(* CommentPin.tsx                                                          *)
(***************************************************************************)
\* viewportX / viewportY of the pin of a thread, from the camera prop (the
\* hook's camera state of the render)
PinPosition(thread, cam) ==
    [x |-> RMul(RSub(thread.x, cam.x), cam.zoom),
     y |-> RMul(RSub(thread.y, cam.y), cam.zoom)]

(***************************************************************************)
(* Math.exp.  e^t is irrational, so it is computed by its (1,1) Pade       *)
(* approximant (2 + t) / (2 - t), which is exact at 0, positive and        *)
(* increasing for |t| < 2 and satisfies exp(-t) = 1 / exp(t).  The wheel   *)
(* deltas below keep |t| = |deltaY| * ZOOM_SENSITIVITY below 2.            *)
(***************************************************************************)
MathExp(t) == RDiv(RAdd(R(2), t), RSub(R(2), t))

(***************************************************************************)
(* Inputs                                                                  *)
(***************************************************************************)
Pt(a, b) == [x |-> a, y |-> b]
Points == {Pt(0, 0), Pt(3, 0), Pt(4, 2)}
Buttons == {0, 1, 2}
Wheel(p, ctrlKey, deltaX, deltaY) ==
    [p |-> p, ctrlKey |-> ctrlKey, deltaX |-> deltaX, deltaY |-> deltaY]
WheelEvents ==
    {Wheel(Pt(4, 2), TRUE, 0, dy) : dy \in {-200, 0, 80, 300}}
        \cup {Wheel(Pt(3, 0), TRUE, 6, -200)}
        \cup {Wheel(Pt(0, 0), FALSE, 0, 0), Wheel(Pt(3, 0), FALSE, 6, 80)}
KeyCodes == {"Space", "KeyA"}

\* el.getBoundingClientRect() of the viewport element (left = top = 0, so
\* getViewportCoordinates(e, el) is the event's client point).
ViewportRect == [width |-> 6, height |-> 2]

\* viewportRef.current is null: the viewport element is not in the document
NoElement == [element |-> FALSE]

InitCamera == [x |-> R(0), y |-> R(0), zoom |-> R(1)]

\* Precision cap of the model: the coordinates of a camera have a common
\* denominator of at most MaxDen.
Representable(cam) == LCM(cam.x[2], cam.y[2]) <= MaxDen

(***************************************************************************)
(* useCanvasInteraction: the camera computations of the handlers           *)
(***************************************************************************)
LERP_FACTOR == Norm(1, 10)
DISTANCE_THRESHOLD == 1

\* zoom that changes the scale without the anchor correction
ZoomAt_NoAnchor(cam, sx, sy, deltaY) ==
    [x |-> cam.x,
     y |-> cam.y,
     zoom |-> clamp(RMul(cam.zoom, MathExp(RMul(R(-deltaY), ZOOM_SENSITIVITY))),
                    MIN_ZOOM, MAX_ZOOM)]

\* handleWheel, ctrlKey branch: the camera passed to setCamera, from cam = cameraRef.current
ZoomAt(cam, sx, sy, deltaY) ==
    LET before == viewportToWorld(R(sx), R(sy), cam)
        factor == MathExp(RMul(R(-deltaY), ZOOM_SENSITIVITY))
        newZoom == clamp(RMul(cam.zoom, factor), MIN_ZOOM, MAX_ZOOM)
    IN  [x |-> RSub(before.x, RDiv(R(sx), newZoom)),
         y |-> RSub(before.y, RDiv(R(sy), newZoom)),
         zoom |-> newZoom]

\* wheel pan that forgets to convert the screen delta to world units
WheelPan_Unscaled(prev, deltaX, deltaY) ==
    [prev EXCEPT !.x = RAdd(prev.x, R(deltaX)),
                 !.y = RAdd(prev.y, R(deltaY))]

\* handleWheel, pan branch: the updater prev => ({...prev, x: prev.x + deltaX / prev.zoom, ...})
WheelPan(prev, deltaX, deltaY) ==
    [prev EXCEPT !.x = RAdd(prev.x, RDiv(R(deltaX), prev.zoom)),
                 !.y = RAdd(prev.y, RDiv(R(deltaY), prev.zoom))]

\* drag pan with the sign of the delta inverted
DragPan_Plus(prev, dx, dy) ==
    [prev EXCEPT !.x = RAdd(prev.x, RDiv(R(dx), prev.zoom)),
                 !.y = RAdd(prev.y, RDiv(R(dy), prev.zoom))]

\* handlePointerMove: the updater prev => ({...prev, x: prev.x - dx / prev.zoom, ...})
DragPan(prev, dx, dy) ==
    [prev EXCEPT !.x = RSub(prev.x, RDiv(R(dx), prev.zoom)),
                 !.y = RSub(prev.y, RDiv(R(dy), prev.zoom))]

\* pan trigger that lets the modifier turn any button into a pan
PanTrigger_AnyButton(button, space) == button = 1 \/ space

\* handlePointerDown: the pan trigger
PanTrigger(button, space) == button = 1 \/ (button = 0 /\ space)

\* click test with an inclusive threshold
IsClick_Inclusive(sx, sy, start, button) ==
    squaredDistance(sx, sy, start.x, start.y) <= DRAG_THRESHOLD * DRAG_THRESHOLD
        /\ button = 0

\* handlePointerUp: the click test
IsClick(sx, sy, start, button) ==
    squaredDistance(sx, sy, start.x, start.y) < DRAG_THRESHOLD * DRAG_THRESHOLD
        /\ button = 0

\* cursor restored without looking at the modifier
CursorAfterPan_Default(space) == "default"

\* handlePointerUp: the cursor restored when a pan ends
CursorAfterPan(space) == IF space THEN "grab" ELSE "default"

\* focus effect: the camera position that centres the target, from the zoom
\* of cameraRef.current when the effect runs
TargetCamera(target, rect, ref) ==
    [x |-> RSub(target.x, RDiv(Norm(rect.width, 2), ref.zoom)),
     y |-> RSub(target.y, RDiv(Norm(rect.height, 2), ref.zoom))]

\* animate: Math.sqrt(dx * dx + dy * dy) < DISTANCE_THRESHOLD, decided without the
\* square root (both sides are >= 0); a component of at least the threshold
\* already decides it, which keeps the squares small.
DistanceBelow(dx, dy, threshold) ==
    IF RLe(R(threshold), RAbs(dx)) \/ RLe(R(threshold), RAbs(dy))
    THEN FALSE
    ELSE RLt(RAdd(RMul(dx, dx), RMul(dy, dy)), R(threshold * threshold))

\* animate: the test that ends the animation
AnimationComplete(current, tx, ty) ==
    DistanceBelow(RSub(tx, current.x), RSub(ty, current.y), DISTANCE_THRESHOLD)

\* final step that keeps the current position instead of snapping
SnapCamera_Stay(current, tx, ty) == current

\* animate: the final snap
SnapCamera(current, tx, ty) == [x |-> tx, y |-> ty, zoom |-> current.zoom]

\* animate: one lerp step
LerpCamera(current, tx, ty) ==
    [x |-> RAdd(current.x, RMul(RSub(tx, current.x), LERP_FACTOR)),
     y |-> RAdd(current.y, RMul(RSub(ty, current.y), LERP_FACTOR)),
     zoom |-> current.zoom]

(***************************************************************************)
(* requestAnimationFrame / cancelAnimationFrame and the focus effect       *)
(***************************************************************************)
\* a frame id that no pending callback has
FreshId(q) == CHOOSE i \in 1..(Cardinality(q) + 1) : \A f \in q : f.id # i

\* cancelAnimationFrame that cancels nothing
cancelAnimationFrame_Noop(q, id) == q

cancelAnimationFrame(q, id) == {f \in q : f.id # id}

\* focus effect without a cleanup
EffectCleanup_None(a, q) == q

\* the cleanup returned by the focus effect, run on the closure a (<<>>: no cleanup)
EffectCleanup(a, q) ==
    IF a # <<>> /\ a[1].animationFrameId # 0
    THEN cancelAnimationFrame(q, a[1].animationFrameId)
    ELSE q

\* the focus effect body for focusTarget ft, on the frame queue q:
\* the new closure and the new frame queue
EffectRun(ft, ref, q) ==
    IF ft = <<>> \/ elRect = NoElement
    THEN [anim |-> <<>>, rafQueue |-> q]
    ELSE LET t == TargetCamera(ft[1], elRect, ref)
             id == FreshId(q)
         IN  [anim |-> <<[tx |-> t.x, ty |-> t.y, animationFrameId |-> id]>>,
              rafQueue |-> q \cup {[id |-> id, tx |-> t.x, ty |-> t.y]}]

\* a change of focusTarget re-renders the hook: cleanup of the old effect, then the new one
FocusEffect(ft, ref, a, q) == EffectRun(ft, ref, EffectCleanup(a, q))

(***************************************************************************)
(* Initial state: the hook just mounted, the store empty                   *)
(***************************************************************************)
Init ==
    /\ camera = InitCamera
    /\ cameraRef = InitCamera
    /\ cursor = "default"
    /\ isPanning = FALSE
    /\ panStart = Pt(0, 0)
    /\ pointerStart = Pt(0, 0)
    /\ spacePressed = FALSE
    /\ captured = FALSE
    /\ threads = <<>>
    /\ focusTarget = <<>>
    /\ selectedThreadId = 0
    /\ anim = <<>>
    /\ rafQueue = {}
    /\ clearCalls = 0
    /\ mounted = TRUE
    /\ elRect = ViewportRect
    /\ spaceHeld = FALSE
    /\ nEvents = 0

(***************************************************************************)
(* Actions                                                                 *)
(***************************************************************************)
\* the cameraRef sync effect, run when React commits the render of a camera change
Render ==
    /\ mounted
    /\ cameraRef # camera
    /\ cameraRef' = camera
    /\ UNCHANGED <<camera, gestureVars, storeVars, animVars, mounted, elRect, spaceHeld, nEvents>>

\* handleKeyDown: whether the handler calls e.preventDefault()
KeyDownPreventsDefault(editable, code, repeat) ==
    ~editable /\ code = "Space" /\ ~repeat

\* handleKeyUp never calls e.preventDefault()
KeyUpPreventsDefault(editable, code) == FALSE

\* key-down handler that shows 'grab' even while a pan is in progress
HandleKeyDown_AlwaysGrab(editable, code, repeat) ==
    /\ mounted
    /\ IF ~editable /\ code = "Space" /\ ~repeat
       THEN /\ spacePressed' = TRUE
            /\ cursor' = "grab"
       ELSE UNCHANGED <<spacePressed, cursor>>
    /\ UNCHANGED <<camera, cameraRef, isPanning, panStart, pointerStart, captured,
                   storeVars, animVars, mounted, elRect, spaceHeld, nEvents>>

\* handleKeyDown: what the listener does to the hook
KeyDownHandler(editable, code, repeat) ==
    /\ mounted
    /\ IF ~editable /\ code = "Space" /\ ~repeat
       THEN /\ spacePressed' = TRUE
            /\ cursor' = IF ~isPanning THEN "grab" ELSE cursor
       ELSE UNCHANGED <<spacePressed, cursor>>
    /\ UNCHANGED <<camera, cameraRef, isPanning, panStart, pointerStart, captured,
                   storeVars, animVars, mounted, elRect, nEvents>>

\* a keydown event is delivered to the window listener
HandleKeyDown(editable, code, repeat) ==
    /\ KeyDownHandler(editable, code, repeat)
    /\ UNCHANGED spaceHeld

\* key-up handler without the editable-target check
HandleKeyUp_NoEditableCheck(editable, code) ==
    /\ mounted
    /\ IF code = "Space"
       THEN /\ spacePressed' = FALSE
            /\ cursor' = IF ~isPanning THEN "default" ELSE cursor
       ELSE UNCHANGED <<spacePressed, cursor>>
    /\ UNCHANGED <<camera, cameraRef, isPanning, panStart, pointerStart, captured,
                   storeVars, animVars, mounted, elRect, spaceHeld, nEvents>>

\* key-up listener that resets the cursor even while a pan is in progress
KeyUpHandler_ResetsCursor(editable, code) ==
    /\ mounted
    /\ IF ~editable /\ code = "Space"
       THEN /\ spacePressed' = FALSE
            /\ cursor' = "default"
       ELSE UNCHANGED <<spacePressed, cursor>>
    /\ UNCHANGED <<camera, cameraRef, isPanning, panStart, pointerStart, captured,
                   storeVars, animVars, mounted, elRect, nEvents>>

\* handleKeyUp: what the listener does to the hook
KeyUpHandler(editable, code) ==
    /\ mounted
    /\ IF ~editable /\ code = "Space"
       THEN /\ spacePressed' = FALSE
            /\ cursor' = IF ~isPanning THEN "default" ELSE cursor
       ELSE UNCHANGED <<spacePressed, cursor>>
    /\ UNCHANGED <<camera, cameraRef, isPanning, panStart, pointerStart, captured,
                   storeVars, animVars, mounted, elRect, nEvents>>

\* a keyup event is delivered to the window listener
HandleKeyUp(editable, code) ==
    /\ KeyUpHandler(editable, code)
    /\ UNCHANGED spaceHeld

\* The keyboard itself.  The user presses the space key, or keeps it down and
\* the browser auto-repeats it (repeat is true exactly when the key was already
\* down); the event goes to the focused element, editable or not.
SpaceKeyDown(editable) ==
    /\ KeyDownHandler(editable, "Space", spaceHeld)
    /\ spaceHeld' = TRUE

\* the user releases the space key; the event goes to the focused element
SpaceKeyUp(editable) ==
    /\ spaceHeld
    /\ KeyUpHandler(editable, "Space")
    /\ spaceHeld' = FALSE

\* the window loses focus while the key is down and the key is released
\* elsewhere: no keyup reaches the window, and the hook listens to nothing else
WindowBlur ==
    /\ mounted
    /\ spaceHeld
    /\ spaceHeld' = FALSE
    /\ UNCHANGED <<camera, cameraRef, gestureVars, storeVars, animVars, mounted,
                   elRect, nEvents>>

\* wheel handler that lets the pan modifier (space) turn a scroll into a zoom
HandleWheel_SpaceZooms(p, ctrlKey, deltaX, deltaY) ==
    /\ mounted
    /\ nEvents < MaxEvents
    /\ nEvents' = nEvents + 1
    /\ UNCHANGED <<cameraRef, gestureVars, storeVars, animVars, mounted, elRect, spaceHeld>>
    /\ camera' = IF ctrlKey \/ spacePressed
                 THEN ZoomAt(cameraRef, p.x, p.y, deltaY)
                 ELSE WheelPan(camera, deltaX, deltaY)
    /\ Representable(camera')

HandleWheel(p, ctrlKey, deltaX, deltaY) ==
    /\ mounted
    /\ nEvents < MaxEvents
    /\ nEvents' = nEvents + 1
    /\ UNCHANGED <<cameraRef, gestureVars, storeVars, animVars, mounted, elRect, spaceHeld>>
    /\ camera' = IF ctrlKey
                 THEN ZoomAt(cameraRef, p.x, p.y, deltaY)
                 ELSE WheelPan(camera, deltaX, deltaY)
    /\ Representable(camera')

HandlePointerDown(p, button) ==
    /\ mounted
    /\ pointerStart' = p
    /\ panStart' = p
    /\ IF PanTrigger(button, spacePressed)
       THEN /\ isPanning' = TRUE
            /\ captured' = TRUE
            /\ cursor' = "grabbing"
       ELSE UNCHANGED <<isPanning, captured, cursor>>
    /\ UNCHANGED <<camera, cameraRef, spacePressed, storeVars, animVars, mounted, elRect, spaceHeld, nEvents>>

\* pointer-move handler that forgets to move the pan anchor
HandlePointerMove_KeepAnchor(p) ==
    /\ mounted
    /\ UNCHANGED <<cameraRef, cursor, isPanning, pointerStart, spacePressed, captured,
                   storeVars, animVars, mounted, elRect, spaceHeld>>
    /\ IF ~isPanning
       THEN UNCHANGED <<camera, panStart, nEvents>>
       ELSE /\ p # panStart => nEvents < MaxEvents
            /\ nEvents' = IF p # panStart THEN nEvents + 1 ELSE nEvents
            /\ panStart' = panStart
            /\ camera' = DragPan(camera, p.x - panStart.x, p.y - panStart.y)
            /\ Representable(camera')

HandlePointerMove(p) ==
    /\ mounted
    /\ UNCHANGED <<cameraRef, cursor, isPanning, pointerStart, spacePressed, captured,
                   storeVars, animVars, mounted, elRect, spaceHeld>>
    /\ IF ~isPanning
       THEN UNCHANGED <<camera, panStart, nEvents>>
       ELSE /\ p # panStart => nEvents < MaxEvents
            /\ nEvents' = IF p # panStart THEN nEvents + 1 ELSE nEvents
            /\ panStart' = p
            /\ camera' = DragPan(camera, p.x - panStart.x, p.y - panStart.y)
            /\ Representable(camera')

\* addThreadAt of the store, called by handlePointerUp
addThreadAt(pos) ==
    /\ threads' = Append(threads, pos)
    /\ selectedThreadId' = Len(threads) + 1

HandlePointerUp(p, button) ==
    /\ mounted
    /\ UNCHANGED <<camera, cameraRef, panStart, pointerStart, spacePressed, focusTarget,
                   animVars, mounted, elRect, spaceHeld>>
    /\ IF isPanning
       THEN /\ isPanning' = FALSE
            /\ captured' = FALSE
            /\ cursor' = CursorAfterPan(spacePressed)
            /\ UNCHANGED <<threads, selectedThreadId, nEvents>>
       ELSE /\ IF IsClick(p.x, p.y, pointerStart, button)
               THEN /\ nEvents < MaxEvents
                    /\ nEvents' = nEvents + 1
                    /\ addThreadAt(viewportToWorld(R(p.x), R(p.y), cameraRef))
               ELSE UNCHANGED <<threads, selectedThreadId, nEvents>>
            /\ UNCHANGED <<isPanning, captured, cursor>>

\* The browser cancels the captured pointer (pointercancel, then the implicit
\* release of its capture; no pointer-up follows).  The hook exposes no handler
\* for either event, so none of its state changes.
PointerCancel ==
    /\ mounted
    /\ captured
    /\ captured' = FALSE
    /\ UNCHANGED <<camera, cameraRef, cursor, isPanning, panStart, pointerStart,
                   spacePressed, storeVars, animVars, mounted, elRect, spaceHeld, nEvents>>

\* focusOnThread that sets the focus target without selecting the thread
FocusOnThread_KeepsSelection(i) ==
    /\ mounted
    /\ IF i \in 1..Len(threads)
       THEN /\ nEvents < MaxEvents
            /\ nEvents' = nEvents + 1
            /\ selectedThreadId' = selectedThreadId
            /\ focusTarget' = <<threads[i]>>
            /\ LET e == FocusEffect(focusTarget', cameraRef, anim, rafQueue)
               IN  /\ anim' = e.anim
                   /\ rafQueue' = e.rafQueue
       ELSE UNCHANGED <<nEvents, selectedThreadId, focusTarget, anim, rafQueue>>
    /\ UNCHANGED <<camera, cameraRef, gestureVars, threads, clearCalls, mounted, elRect, spaceHeld>>

\* focusOnThread(id) of the store with id = i, and the re-render it causes; an
\* id that no thread has leaves the store as it is
FocusOnThread(i) ==
    /\ mounted
    /\ IF i \in 1..Len(threads)
       THEN /\ nEvents < MaxEvents
            /\ nEvents' = nEvents + 1
            /\ selectedThreadId' = i
            /\ focusTarget' = <<threads[i]>>
            /\ LET e == FocusEffect(focusTarget', cameraRef, anim, rafQueue)
               IN  /\ anim' = e.anim
                   /\ rafQueue' = e.rafQueue
       ELSE UNCHANGED <<nEvents, selectedThreadId, focusTarget, anim, rafQueue>>
    /\ UNCHANGED <<camera, cameraRef, gestureVars, threads, clearCalls, mounted, elRect, spaceHeld>>

\* clearFocusTarget() of the store called from outside the animator
ExternalClearFocusTarget ==
    /\ mounted
    /\ focusTarget # <<>>
    /\ focusTarget' = <<>>
    /\ LET e == FocusEffect(focusTarget', cameraRef, anim, rafQueue)
       IN  /\ anim' = e.anim
           /\ rafQueue' = e.rafQueue
    /\ UNCHANGED <<camera, cameraRef, gestureVars, threads, selectedThreadId, clearCalls,
                   mounted, elRect, spaceHeld, nEvents>>

\* the requestAnimationFrame callback f runs: animate of the closure that requested it
Tick(f) ==
    /\ f \in rafQueue
    /\ LET q == rafQueue \ {f}
           current == cameraRef
           live == anim # <<>> /\ anim[1].animationFrameId = f.id
       IN  IF AnimationComplete(current, f.tx, f.ty)
           THEN /\ camera' = IF mounted THEN SnapCamera(current, f.tx, f.ty) ELSE camera
                /\ clearCalls' = clearCalls + 1
                /\ focusTarget' = <<>>
                /\ IF mounted /\ focusTarget # <<>>
                   THEN LET e == FocusEffect(focusTarget', cameraRef, anim, q)
                        IN  /\ anim' = e.anim
                            /\ rafQueue' = e.rafQueue
                   ELSE /\ anim' = anim
                        /\ rafQueue' = q
           ELSE /\ camera' = IF mounted THEN LerpCamera(current, f.tx, f.ty) ELSE camera
                /\ Representable(camera')
                /\ LET id == FreshId(q)
                   IN  /\ rafQueue' = q \cup {[f EXCEPT !.id = id]}
                       /\ anim' = IF live
                                  THEN <<[anim[1] EXCEPT !.animationFrameId = id]>>
                                  ELSE anim
                /\ UNCHANGED <<focusTarget, clearCalls>>
    /\ UNCHANGED <<cameraRef, gestureVars, threads, selectedThreadId, mounted, elRect,
                   spaceHeld, nEvents>>

\* the component is torn down: the focus effect's cleanup runs, the listeners are removed
Unmount ==
    /\ mounted
    /\ mounted' = FALSE
    /\ rafQueue' = EffectCleanup(anim, rafQueue)
    /\ anim' = <<>>
    /\ UNCHANGED <<camera, cameraRef, gestureVars, storeVars, clearCalls, elRect, spaceHeld, nEvents>>

Next ==
    \/ Render
    \/ \E editable \in BOOLEAN, code \in KeyCodes, repeat \in BOOLEAN :
          HandleKeyDown(editable, code, repeat)
    \/ \E editable \in BOOLEAN, code \in KeyCodes : HandleKeyUp(editable, code)
    \/ \E e \in WheelEvents : HandleWheel(e.p, e.ctrlKey, e.deltaX, e.deltaY)
    \/ \E p \in Points, button \in Buttons : HandlePointerDown(p, button)
    \/ \E p \in Points : HandlePointerMove(p)
    \/ \E p \in Points, button \in Buttons : HandlePointerUp(p, button)
    \/ \E i \in 1..Len(threads) : FocusOnThread(i)
    \/ ExternalClearFocusTarget
    \/ \E f \in rafQueue : Tick(f)
    \/ Unmount

Spec == Init /\ [][Next]_vars

(***************************************************************************)
(* The animator on its own: the state after the user has clicked at        *)
(* (3, 0) and at (4, 2) on the freshly mounted canvas (two threads), then  *)
(* focus requests, wheel input, animation frames, renders and teardown.    *)
(***************************************************************************)
AnimThreads == <<[x |-> R(3), y |-> R(0)], [x |-> R(4), y |-> R(2)]>>

AnimInit ==
    /\ camera = InitCamera
    /\ cameraRef = InitCamera
    /\ cursor = "default"
    /\ isPanning = FALSE
    /\ panStart = Pt(4, 2)
    /\ pointerStart = Pt(4, 2)
    /\ spacePressed = FALSE
    /\ captured = FALSE
    /\ threads = AnimThreads
    /\ focusTarget = <<>>
    /\ selectedThreadId = Len(AnimThreads)
    /\ anim = <<>>
    /\ rafQueue = {}
    /\ clearCalls = 0
    /\ mounted = TRUE
    /\ elRect = ViewportRect
    /\ spaceHeld = FALSE
    /\ nEvents = 0

AnimNext ==
    \/ Render
    \/ \E e \in WheelEvents : HandleWheel(e.p, e.ctrlKey, e.deltaX, e.deltaY)
    \/ \E i \in 1..Len(threads) : FocusOnThread(i)
    \/ ExternalClearFocusTarget
    \/ \E f \in rafQueue : Tick(f)
    \/ Unmount

AnimSpec == AnimInit /\ [][AnimNext]_vars

(***************************************************************************)
(* One focus request left alone: a camera the user has panned/zoomed to,   *)
(* the two threads, a single focusOnThread and then only animation frames  *)
(* and renders.  The browser runs a requested frame callback and React     *)
(* commits a scheduled render, hence the weak fairness.                    *)
(***************************************************************************)
Cam(x, y, zoom) == [x |-> x, y |-> y, zoom |-> zoom]
FocusCameras ==
    {Cam(R(0), R(0), R(1)), Cam(R(1), R(0), R(1)), Cam(Norm(1, 2), R(0), R(1)),
     Cam(Norm(1, 4), R(0), R(1)), Cam(Norm(3, 4), R(0), R(1)),
     Cam(R(1), R(1), R(1)), Cam(R(0), R(-1), R(1)),
     Cam(Norm(5, 2), Norm(2, 3), R(3)), Cam(R(2), Norm(2, 3), R(3)),
     Cam(R(3), Norm(2, 3), R(3))}

\* the focus request converges within the precision cap from the camera c
Near(c, i) ==
    LET t == TargetCamera(AnimThreads[i], elRect, c)
    IN  /\ RLt(RAbs(RSub(t.x, c.x)), Norm(5, 4))
        /\ RLt(RAbs(RSub(t.y, c.y)), Norm(5, 4))

FocusInit ==
    /\ camera \in FocusCameras
    /\ cameraRef = camera
    /\ cursor = "default"
    /\ isPanning = FALSE
    /\ panStart = Pt(4, 2)
    /\ pointerStart = Pt(4, 2)
    /\ spacePressed = FALSE
    /\ captured = FALSE
    /\ threads = AnimThreads
    /\ focusTarget = <<>>
    /\ selectedThreadId = Len(AnimThreads)
    /\ anim = <<>>
    /\ rafQueue = {}
    /\ clearCalls = 0
    /\ mounted = TRUE
    /\ elRect = ViewportRect
    /\ spaceHeld = FALSE
    /\ nEvents = 0

FocusNext ==
    \/ Render
    \/ \E i \in 1..Len(threads) : nEvents = 0 /\ Near(camera, i) /\ FocusOnThread(i)
    \/ \E f \in rafQueue : Tick(f)

FocusSpec ==
    /\ FocusInit
    /\ [][FocusNext]_vars
    /\ WF_vars(Render)
    /\ WF_vars(\E f \in rafQueue : Tick(f))

(***************************************************************************)
(* The canvas never receives a pointer-down (the presses happen elsewhere  *)
(* or not at all): every pointer-up of these behaviours arrives without a  *)
(* matching pointer-down.                                                  *)
(***************************************************************************)
NoPressNext ==
    \/ Render
    \/ \E editable \in BOOLEAN, code \in KeyCodes, repeat \in BOOLEAN :
          HandleKeyDown(editable, code, repeat)
    \/ \E editable \in BOOLEAN, code \in KeyCodes : HandleKeyUp(editable, code)
    \/ \E e \in WheelEvents : HandleWheel(e.p, e.ctrlKey, e.deltaX, e.deltaY)
    \/ \E p \in Points : HandlePointerMove(p)
    \/ \E p \in Points, button \in Buttons : HandlePointerUp(p, button)

NoPressSpec == Init /\ [][NoPressNext]_vars

(***************************************************************************)
(* The pointer machine with the browser's forced cancellation: key and     *)
(* pointer events, pointercancel / lost capture, and renders.              *)
(***************************************************************************)
PointerNext ==
    \/ Render
    \/ \E editable \in BOOLEAN, code \in KeyCodes, repeat \in BOOLEAN :
          HandleKeyDown(editable, code, repeat)
    \/ \E editable \in BOOLEAN, code \in KeyCodes : HandleKeyUp(editable, code)
    \/ \E p \in Points, button \in Buttons : HandlePointerDown(p, button)
    \/ \E p \in Points : HandlePointerMove(p)
    \/ \E p \in Points, button \in Buttons : HandlePointerUp(p, button)
    \/ PointerCancel

PointerSpec == Init /\ [][PointerNext]_vars

(***************************************************************************)
(* The pointer machine with a physical space key: presses, auto-repeats    *)
(* and releases of the key with the focus on the canvas or in an editable  *)
(* control, loss of window focus, pointer events and renders.              *)
(***************************************************************************)
KeyNext ==
    \/ Render
    \/ \E editable \in BOOLEAN : SpaceKeyDown(editable)
    \/ \E editable \in BOOLEAN : SpaceKeyUp(editable)
    \/ WindowBlur
    \/ \E p \in Points, button \in Buttons : HandlePointerDown(p, button)
    \/ \E p \in Points : HandlePointerMove(p)
    \/ \E p \in Points, button \in Buttons : HandlePointerUp(p, button)

KeySpec == Init /\ [][KeyNext]_vars

(***************************************************************************)
(* The editor store driven by the canvas and the thread list: clicks that  *)
(* create threads, selectThread, focusOnThread with ids of existing and of *)
(* missing threads, clearFocusTarget, and the animator's frames.           *)
(***************************************************************************)
\* selectThread(id) of the store; 0 is null
SelectThread(id) ==
    /\ mounted
    /\ selectedThreadId' = id
    /\ UNCHANGED <<camera, cameraRef, gestureVars, threads, focusTarget, animVars,
                   mounted, elRect, spaceHeld, nEvents>>

\* the ids a caller may pass: none (0), those of the threads, and one no thread has
ThreadIds == 0..(Len(threads) + 1)

StoreNext ==
    \/ Render
    \/ \E p \in Points, button \in Buttons : HandlePointerDown(p, button)
    \/ \E p \in Points, button \in Buttons : HandlePointerUp(p, button)
    \/ \E id \in 0..Len(threads) : SelectThread(id)
    \/ \E id \in ThreadIds : FocusOnThread(id)
    \/ ExternalClearFocusTarget
    \/ \E f \in rafQueue : Tick(f)

StoreSpec == Init /\ [][StoreNext]_vars

(***************************************************************************)
(* Comment pins.  Canvas renders one CommentPin per thread inside the      *)
(* viewport element, so a pointer event on a pin would bubble to the       *)
(* canvas handlers; the pin's own handlers call e.stopPropagation().  A    *)
(* pin only receives pointer events while the viewport does not hold the   *)
(* pointer capture.                                                        *)
(***************************************************************************)
\* pin whose pointer-down bubbles to the viewport's onPointerDown
PinPointerDown_Bubbles(i, p, button) ==
    /\ i \in 1..Len(threads)
    /\ ~captured
    /\ HandlePointerDown(p, button)

\* CommentPin handlePointerDown on the pin of thread i: stopPropagation only
PinPointerDown(i, p, button) ==
    /\ mounted
    /\ i \in 1..Len(threads)
    /\ ~captured
    /\ UNCHANGED vars

\* CommentPin handlePointerUp on the pin of thread i: stopPropagation, selectThread(thread.id)
PinPointerUp(i, p, button) ==
    /\ mounted
    /\ i \in 1..Len(threads)
    /\ ~captured
    /\ selectedThreadId' = i
    /\ UNCHANGED <<camera, cameraRef, gestureVars, threads, focusTarget, animVars,
                   mounted, elRect, spaceHeld, nEvents>>

PinNext ==
    \/ Render
    \/ \E editable \in BOOLEAN, code \in KeyCodes, repeat \in BOOLEAN :
          HandleKeyDown(editable, code, repeat)
    \/ \E editable \in BOOLEAN, code \in KeyCodes : HandleKeyUp(editable, code)
    \/ \E p \in Points, button \in Buttons : HandlePointerDown(p, button)
    \/ \E p \in Points : HandlePointerMove(p)
    \/ \E p \in Points, button \in Buttons : HandlePointerUp(p, button)
    \/ \E i \in 1..Len(threads), p \in Points, button \in Buttons :
          PinPointerDown(i, p, button)
    \/ \E i \in 1..Len(threads), p \in Points, button \in Buttons :
          PinPointerUp(i, p, button)

PinSpec == Init /\ [][PinNext]_vars

(***************************************************************************)
(* The animator on a viewport without usable geometry: the element is      *)
(* missing, or its bounding rectangle has zero width or zero height (a     *)
(* collapsed or display:none container).                                   *)
(***************************************************************************)
DegenerateRects ==
    {[width |-> 0, height |-> 0], [width |-> 0, height |-> 2],
     [width |-> 6, height |-> 0]}

DegenerateInit ==
    /\ camera = InitCamera
    /\ cameraRef = InitCamera
    /\ cursor = "default"
    /\ isPanning = FALSE
    /\ panStart = Pt(4, 2)
    /\ pointerStart = Pt(4, 2)
    /\ spacePressed = FALSE
    /\ captured = FALSE
    /\ threads = AnimThreads
    /\ focusTarget = <<>>
    /\ selectedThreadId = Len(AnimThreads)
    /\ anim = <<>>
    /\ rafQueue = {}
    /\ clearCalls = 0
    /\ mounted = TRUE
    /\ elRect \in DegenerateRects \cup {NoElement}
    /\ spaceHeld = FALSE
    /\ nEvents = 0

DegenerateSpec == DegenerateInit /\ [][AnimNext]_vars

(***************************************************************************)
(* Properties                                                              *)
(***************************************************************************)
RPt(p) == [x |-> R(p.x), y |-> R(p.y)]
WorldUnder(p, cam) == viewportToWorld(R(p.x), R(p.y), cam)
AtZoomBound(cam) == cam.zoom = MIN_ZOOM \/ cam.zoom = MAX_ZOOM

\* C1: in every reachable state MIN_ZOOM (1/4) <= camera.zoom <= MAX_ZOOM (3),
\* for the camera state and for the camera the handlers read; in particular
\* the zoom is positive.
C1_ZoomWithinBounds ==
    \A cam \in {camera, cameraRef} :
        /\ RLe(Norm(1, 4), cam.zoom)
        /\ RLe(cam.zoom, R(3))
        /\ cam.zoom[1] > 0

\* a zoom-out whose computed zoom (1 * 1/7) was clamped to MIN_ZOOM
C1_Witness == camera.zoom = Norm(1, 4) /\ nEvents = 1

C3_ClickIffBelowThreshold ==
    [][\A p \in Points, button \in Buttons :
          \/ isPanning
          \/ LET ddx == p.x - pointerStart.x
                 ddy == p.y - pointerStart.y
             IN  IF ddx * ddx + ddy * ddy < 9 /\ button = 0
                 THEN /\ Len(threads') = Len(threads) + 1
                      /\ SubSeq(threads', 1, Len(threads)) = threads
                 ELSE threads' = threads
          \/ ~HandlePointerUp(p, button)]_vars

\* two qualifying pairs in sequence: two clicks, at (0, 0) and then at (4, 2)
C3_Witness ==
    /\ threads = <<RPt(Pt(0, 0)), RPt(Pt(4, 2))>>
    /\ camera = InitCamera

\* C4: a pointer-move while PANNING from the pan anchor prev to cur moves the
\* camera to x - (cur.x - prev.x)/zoom, y - (cur.y - prev.y)/zoom, keeps the zoom
\* and makes cur the pan anchor; a pointer-move while IDLE leaves the camera
\* unchanged.  The drag (50, 30) moves camera {0,0,1} to {-50,-30,1} and moves a
\* camera at zoom 2 by (-25, -15).  (A => B is written B \/ ~A.)
C4_DragPan ==
    [][\A p \in Points :
          \/ /\ IF isPanning
                THEN /\ panStart' = p
                     /\ camera'.zoom = camera.zoom
                     /\ \/ p = panStart /\ camera' = camera     \* x - 0 / zoom = x
                        \/ /\ camera'.x
                                = RSub(camera.x, RDiv(R(p.x - panStart.x), camera.zoom))
                           /\ camera'.y
                                = RSub(camera.y, RDiv(R(p.y - panStart.y), camera.zoom))
                ELSE camera' = camera /\ panStart' = panStart
             /\ (isPanning /\ p # panStart)
                => /\ DragPan(Cam(R(0), R(0), R(1)), 150 - 100, 130 - 100)
                        = Cam(R(-50), R(-30), R(1))
                   /\ DragPan(Cam(R(0), R(0), R(2)), 50, 30) = Cam(R(-25), R(-15), R(2))
          \/ ~HandlePointerMove(p)]_vars

\* a drag from (3, 0) to (4, 2) at zoom 2/3 (after a zoom anchored at (4, 2)):
\* the camera moved by (-3/2, -3)
C4_Witness ==
    /\ isPanning
    /\ panStart = Pt(4, 2)
    /\ pointerStart = Pt(3, 0)
    /\ camera = Cam(Norm(-7, 2), R(-4), Norm(2, 3))

\* C5: a pointer-down while IDLE enters PANNING exactly when the button is 1,
\* or the button is 0 and space is held; it then captures the pointer and sets
\* the cursor to 'grabbing'.  Any other pointer-down stays IDLE without capture
\* or cursor change.  Either way it records pointerDownAt and nothing else of
\* the camera or the store changes.
C5_PanTrigger ==
    [][\A p \in Points, button \in Buttons :
          (~isPanning /\ HandlePointerDown(p, button))
          => /\ pointerStart' = p
             /\ camera' = camera
             /\ threads' = threads
             /\ IF button = 1 \/ (button = 0 /\ spacePressed)
                THEN isPanning' /\ captured' /\ cursor' = "grabbing"
                ELSE ~isPanning' /\ ~captured' /\ cursor' = cursor]_vars

\* a pan started with space + primary button
C5_Witness ==
    /\ isPanning /\ spacePressed /\ captured /\ cursor = "grabbing"
    /\ pointerStart = Pt(3, 0)

\* C6: a pointer-up while PANNING returns to IDLE, releases the capture, sets
\* the cursor to 'grab' if space is still held and to 'default' otherwise, and
\* emits no click, wherever the pointer is released.
C6_PanEnd ==
    [][\A p \in Points, button \in Buttons :
          (isPanning /\ HandlePointerUp(p, button))
          => /\ ~isPanning'
             /\ ~captured'
             /\ cursor' = (IF spacePressed THEN "grab" ELSE "default")
             /\ threads' = threads
             /\ camera' = camera]_vars

\* a pan that moved the camera has ended with space still held, and no click
\* was emitted
C6_Witness ==
    /\ ~isPanning /\ ~captured /\ spacePressed /\ cursor = "grab"
    /\ camera = Cam(R(-4), R(-2), R(1))
    /\ threads = <<>>

\* the focus request for thread i has converged: the camera is exactly at the
\* position that centres the thread, no frame is pending, the target is cleared
Converged(i) ==
    LET t == TargetCamera(AnimThreads[i], ViewportRect, camera)
    IN  /\ camera.x = t.x
        /\ camera.y = t.y
        /\ worldToViewport(AnimThreads[i].x, AnimThreads[i].y, camera)
             = [x |-> Norm(ViewportRect.width, 2), y |-> Norm(ViewportRect.height, 2)]
        /\ rafQueue = {}
        /\ focusTarget = <<>>
        /\ clearCalls = 1

\* C7: once a focus target is set and left alone (no other camera input, no
\* further focus request), after finitely many animation frames the camera is
\* exactly at the position that centres the target, the animation has stopped,
\* and clearFocusTarget has been called once; it is never called twice.
C7_AnimatorConvergence ==
    /\ \A i \in 1..Len(AnimThreads) : (focusTarget = <<AnimThreads[i]>>) ~> Converged(i)
    /\ [](clearCalls <= 1)

\* thread 2 at world (4, 2) is centred at zoom 1 after lerp steps that left
\* cameraRef behind by one render
C7_Witness ==
    /\ Converged(2)
    /\ camera = Cam(R(1), R(1), R(1))
    /\ cameraRef # camera
    /\ cameraRef.x[2] > 1

\* (tx, ty) is the camera position that centres the world point w at some zoom
CentresAtSomeZoom(tx, ty, w) ==
    LET ox == RSub(w.x, tx)
        oy == RSub(w.y, ty)
    IN  /\ RLt(R(0), ox)
        /\ RMul(ox, R(ViewportRect.height)) = RMul(oy, R(ViewportRect.width))

\* C8: when a focus request replaces one whose animation is still running, the
\* pending frame of the old target is cancelled and the only pending frame is
\* the one of the new target, without a clearFocusTarget call and without a
\* camera change; every pending frame aims at the centring position of the
\* current focus target, so every later tick lerps towards it or snaps to it,
\* and a clearFocusTarget call is made only by the tick that snaps.
C8_Retarget ==
    /\ [](\A f \in rafQueue :
             /\ focusTarget # <<>>
             /\ CentresAtSomeZoom(f.tx, f.ty, focusTarget[1]))
    /\ [][/\ \A i \in 1..Len(threads) :
               (rafQueue # {} /\ FocusOnThread(i))
               => LET t == TargetCamera(threads[i], ViewportRect, cameraRef)
                  IN  /\ Cardinality(rafQueue') = 1
                      /\ \A f \in rafQueue' : f.tx = t.x /\ f.ty = t.y
                      /\ clearCalls' = clearCalls
                      /\ camera' = camera
          /\ \A f \in rafQueue :
               Tick(f)
               => \/ /\ camera'.x = f.tx /\ camera'.y = f.ty
                     /\ clearCalls' = clearCalls + 1
                     /\ rafQueue' = {}
                  \/ /\ camera'.x = RAdd(cameraRef.x, RDiv(RSub(f.tx, cameraRef.x), R(10)))
                     /\ camera'.y = RAdd(cameraRef.y, RDiv(RSub(f.ty, cameraRef.y), R(10)))
                     /\ clearCalls' = clearCalls
                     /\ \A g \in rafQueue' : g.tx = f.tx /\ g.ty = f.ty]_vars

\* thread 1 was focused, one lerp step moved the camera towards its centring
\* position (0, -1), then thread 2 replaced it: the pending frame aims at (1, 1)
C8_Witness ==
    /\ focusTarget = <<AnimThreads[2]>>
    /\ camera = Cam(R(0), Norm(-1, 10), R(1))
    /\ clearCalls = 0
    /\ nEvents = 2
    /\ rafQueue = {[id |-> 1, tx |-> R(1), ty |-> R(1)]}

\* C9: at most one animation-frame callback is pending; one is pending only
\* while a focus target is set and the component is mounted, and it is the
\* frame the live effect closure would cancel, aimed at that closure's target:
\* no frame of a cleared, replaced or torn-down animation is left to run.
C9_SinglePendingFrame ==
    /\ Cardinality(rafQueue) <= 1
    /\ \A f \in rafQueue :
          /\ focusTarget # <<>>
          /\ mounted
          /\ anim # <<>>
          /\ anim[1] = [tx |-> f.tx, ty |-> f.ty, animationFrameId |-> f.id]
    /\ (focusTarget = <<>> \/ ~mounted) => rafQueue = {}

\* the component was torn down in the middle of an animation: the target is
\* still set in the store, the frame is gone
C9_Witness ==
    /\ ~mounted
    /\ focusTarget = <<AnimThreads[2]>>
    /\ camera = Cam(Norm(1, 10), Norm(1, 10), R(1))
    /\ rafQueue = {}

\* C10 (as claimed): every camera mutation is computed from the camera value
\* produced by the immediately preceding mutation: a wheel zoom yields the zoom
\* of the current camera state, an animation tick the lerp step or snap of the
\* current camera state, so no earlier pan or zoom is discarded.
C10_NoLostCameraUpdate ==
    [][/\ \A e \in WheelEvents :
             (e.ctrlKey /\ HandleWheel(e.p, e.ctrlKey, e.deltaX, e.deltaY))
             => camera' = ZoomAt(camera, e.p.x, e.p.y, e.deltaY)
       /\ \A f \in rafQueue :
             Tick(f)
             => camera' = IF AnimationComplete(camera, f.tx, f.ty)
                          THEN SnapCamera(camera, f.tx, f.ty)
                          ELSE LerpCamera(camera, f.tx, f.ty)]_vars

\* C11 (as claimed): a qualifying pointer-up emits the click at the world point
\* viewportToWorld(release point, camera) of the current camera state, i.e. of
\* the camera that results from all pan, zoom and animation mutations handled
\* before that pointer-up.
C11_ClickAtCurrentCamera ==
    [][\A p \in Points :
          (~isPanning /\ IsClick(p.x, p.y, pointerStart, 0) /\ HandlePointerUp(p, 0))
          => threads' = Append(threads, viewportToWorld(R(p.x), R(p.y), camera))]_vars

\* C12: a wheel event without ctrl moves the camera state to x + deltaX / zoom,
\* y + deltaY / zoom and keeps the zoom, whether the pointer machine is IDLE or
\* PANNING (and whether or not the camera state has been rendered yet).
C12_WheelPan ==
    [][\A e \in WheelEvents :
          (~e.ctrlKey /\ HandleWheel(e.p, e.ctrlKey, e.deltaX, e.deltaY))
          => /\ camera'.x = RAdd(camera.x, RDiv(R(e.deltaX), camera.zoom))
             /\ camera'.y = RAdd(camera.y, RDiv(R(e.deltaY), camera.zoom))
             /\ camera'.zoom = camera.zoom]_vars

\* while PANNING, after a zoom to 2/3 anchored at (4, 2) (camera (-2, -1)), the
\* wheel delta (6, 80) moved the camera by (9, 120)
C12_Witness ==
    /\ isPanning
    /\ nEvents = 2
    /\ camera = Cam(R(7), R(119), Norm(2, 3))

\* C13: handling a wheel event never changes isPanning, the pan anchor,
\* pointerDownAt, the modifier flag, the cursor or the pointer capture, and the
\* event is classified by its ctrl flag alone, whatever the pointer machine's
\* state: with ctrl the zoom becomes clamp(zoom * exp(-deltaY * sensitivity))
\* (deltaX plays no part), without ctrl the zoom is kept and the camera moves
\* by (deltaX, deltaY) / zoom.
C13_WheelIndependent ==
    [][\A e \in WheelEvents :
          HandleWheel(e.p, e.ctrlKey, e.deltaX, e.deltaY)
          => /\ UNCHANGED <<isPanning, panStart, pointerStart, spacePressed, cursor,
                            captured>>
             /\ IF e.ctrlKey
                THEN camera'.zoom
                       = clamp(RMul(cameraRef.zoom,
                                    MathExp(RMul(R(-e.deltaY), ZOOM_SENSITIVITY))),
                               MIN_ZOOM, MAX_ZOOM)
                ELSE /\ camera'.zoom = camera.zoom
                     /\ camera'.x = RAdd(camera.x, RDiv(R(e.deltaX), camera.zoom))
                     /\ camera'.y = RAdd(camera.y, RDiv(R(e.deltaY), camera.zoom))]_vars

\* a scroll handled in the middle of a space + drag pan: the camera moved by
\* (6, 80), the pan is still in progress with its anchor, capture and cursor
C13_Witness ==
    /\ isPanning /\ captured /\ spacePressed /\ cursor = "grabbing"
    /\ panStart = Pt(3, 0) /\ pointerStart = Pt(3, 0)
    /\ camera = Cam(R(6), R(80), R(1))
    /\ nEvents = 1

\* C14 (as claimed): a pointer-up that arrives without a matching pointer-down
\* emits no click and changes no state, whatever the release point and button.
C14_UnmatchedPointerUp ==
    [][\A p \in Points, button \in Buttons :
          HandlePointerUp(p, button) => UNCHANGED vars]_vars

\* C15 (as claimed): once the pointer that started a pan is released or its
\* capture is forcibly cancelled, the machine is IDLE, the capture is released
\* and the cursor is no longer 'grabbing'; pointer-moves that arrive while the
\* canvas holds no capture do not move the camera.
C15_PanNeverStranded ==
    [][/\ (PointerCancel \/ \E p \in Points, button \in Buttons :
                               isPanning /\ HandlePointerUp(p, button))
          => (~isPanning' /\ ~captured' /\ cursor' # "grabbing")
       /\ \A p \in Points :
             (~captured /\ HandlePointerMove(p)) => camera' = camera]_vars

\* C16 (as claimed): every animation tick of the mounted hook, lerp step or
\* final snap, leaves the zoom of the camera state as it is, also when a
\* ctrl-wheel zoom was handled since the previous tick.
C16_TickKeepsZoom ==
    [][\A f \in rafQueue : (mounted /\ Tick(f)) => camera'.zoom = camera.zoom]_vars

\* C17 (as claimed, for ticks that read an up-to-date camera): an animation
\* frame aims at the camera position that centres the focus target in the
\* viewport at the zoom the camera has at that frame, and the tick that ends the
\* animation leaves the target at the viewport centre (width / 2, height / 2),
\* also when a ctrl-wheel zoom was handled while the animation was running.
C17_SteersToCentre ==
    [][\A f \in rafQueue :
          (mounted /\ cameraRef = camera /\ focusTarget # <<>> /\ Tick(f))
          => LET t == TargetCamera(focusTarget[1], elRect, camera)
             IN  /\ f.tx = t.x
                 /\ f.ty = t.y
                 /\ focusTarget' = <<>>
                    => worldToViewport(focusTarget[1].x, focusTarget[1].y, camera')
                         = [x |-> Norm(elRect.width, 2),
                            y |-> Norm(elRect.height, 2)]]_vars

\* C18: while the viewport geometry is missing or degenerate (zero width or
\* zero height), an animation frame of a focus request is a no-op: it does not
\* change the camera.
C18_DegenerateTickSkipped ==
    [][\A f \in rafQueue :
          (/\ elRect = NoElement \/ elRect.width = 0 \/ elRect.height = 0
           /\ Tick(f))
          => camera' = camera]_vars

\* C19: in every reachable state the cursor is 'grabbing' exactly when a pan is
\* in progress; while no pan is in progress it is 'grab' exactly when the space
\* flag is set and 'default' otherwise.  (Initially: no pan, no space, 'default'.)
C19_CursorAffordance ==
    /\ cursor = "grabbing" <=> isPanning
    /\ ~isPanning => /\ cursor = "grab" <=> spacePressed
                     /\ cursor = "default" <=> ~spacePressed

\* space is still held after a pan has ended: the cursor is back to 'grab'
C19_Witness ==
    /\ ~isPanning
    /\ ~captured
    /\ spacePressed
    /\ cursor = "grab"
    /\ nEvents = 2

\* C20: a key-down or key-up whose target is an editable control changes
\* neither the space flag nor the cursor nor the pan state, and does not
\* suppress the event's default action.
C20_EditableKeysIgnored ==
    [][\A code \in KeyCodes, repeat \in BOOLEAN :
          (HandleKeyDown(TRUE, code, repeat) \/ HandleKeyUp(TRUE, code))
          => /\ UNCHANGED <<spacePressed, cursor, isPanning, panStart, captured>>
             /\ ~KeyDownPreventsDefault(TRUE, code, repeat)
             /\ ~KeyUpPreventsDefault(TRUE, code)]_vars

\* space held on the canvas, no pan: a key-up typed into an editable control
\* here would clear the flag if it were not ignored
C20_Witness ==
    /\ spacePressed
    /\ ~isPanning
    /\ cursor = "grab"
    /\ nEvents = 0

\* C21: whenever the space key is not physically held (its key-up was
\* delivered, to the canvas or to an editable control, or the window lost focus
\* while it was held), the space flag is false, the idle cursor is 'default'
\* and a primary-button pointer-down would not start a pan.
C21_ModifierNeverSticks ==
    ~spaceHeld => /\ ~spacePressed
                  /\ ~isPanning => cursor = "default"
                  /\ ~PanTrigger(0, spacePressed)

\* C22: round trip.  For every camera the hook reaches (zoom > 0) and every
\* screen point p, worldToViewport(viewportToWorld(p, c), c) = p, and for every
\* world point w (the threads), viewportToWorld(worldToViewport(w, c), c) = w.
\* Exact in rational arithmetic, hence within any tolerance.
ScreenSamples == Points \cup {Pt(-5, 7), Pt(100, 200)}
C22_RoundTrip ==
    /\ RLt(R(0), camera.zoom)
    /\ \A p \in ScreenSamples :
          LET w == viewportToWorld(R(p.x), R(p.y), camera)
          IN  worldToViewport(w.x, w.y, camera) = RPt(p)
    /\ \A i \in 1..Len(threads) :
          LET v == worldToViewport(threads[i].x, threads[i].y, camera)
          IN  viewportToWorld(v.x, v.y, camera) = threads[i]

\* a zoomed camera at a fractional position, in the middle of a focus animation
C22_Witness ==
    /\ camera.zoom # R(1)
    /\ camera.x[2] > 1
    /\ focusTarget # <<>>
    /\ Len(threads) = 2

\* C23: zero-delta idempotence.  A wheel pan with deltaX = deltaY = 0, a
\* ctrl-wheel zoom with deltaY = 0 at any anchor, and a pointer-move while
\* panning to the current pan anchor each leave the camera (x, y and zoom)
\* unchanged.
C23_ZeroDeltaIdempotent ==
    [][/\ \A e \in WheelEvents :
             (/\ e.deltaY = 0
              /\ e.ctrlKey \/ e.deltaX = 0
              /\ HandleWheel(e.p, e.ctrlKey, e.deltaX, e.deltaY))
             => camera' = camera
       /\ (isPanning /\ HandlePointerMove(panStart)) => camera' = camera]_vars

\* the integer part of the square root of n >= 0
FloorSqrt(n) == CHOOSE k \in 0..n : k * k <= n /\ n < (k + 1) * (k + 1)

\* the Euclidean comparison sqrt(dx^2 + dy^2) < t for an integer t: the root
\* is below t exactly when its integer part is
EuclidBelow(x1, y1, x2, y2, t) ==
    FloorSqrt((x1 - x2) * (x1 - x2) + (y1 - y2) * (y1 - y2)) < t

\* release points around the press points: every offset from -4 to 4 occurs
ReleaseGrid == {Pt(a, b) : a \in -1..8, b \in -4..6}

\* C24: for every release point and the recorded press point, the squared
\* comparison squaredDistance < DRAG_THRESHOLD * DRAG_THRESHOLD and the
\* Euclidean comparison distance < DRAG_THRESHOLD agree; squaredDistance is
\* symmetric, and it is 0 exactly for identical points.
C24_SquaredComparison ==
    \A up \in ReleaseGrid :
        LET down == pointerStart
            sq == squaredDistance(up.x, up.y, down.x, down.y)
        IN  /\ (sq < DRAG_THRESHOLD * DRAG_THRESHOLD)
                  <=> EuclidBelow(up.x, up.y, down.x, down.y, DRAG_THRESHOLD)
            /\ sq = squaredDistance(down.x, down.y, up.x, up.y)
            /\ (sq = 0) <=> (up = down)

\* a click has passed the threshold test after a press at (3, 0)
C24_Witness ==
    /\ pointerStart = Pt(3, 0)
    /\ ~isPanning
    /\ Len(threads) = 1

\* the zoom a ctrl-wheel event with deltaY asks for, before the clamp
RawZoom(cam, deltaY) == RMul(cam.zoom, MathExp(RMul(R(-deltaY), ZOOM_SENSITIVITY)))

\* the camera is at a zoom bound and deltaY pushes further past it
PushesPastBound(cam, deltaY) ==
    \/ cam.zoom = MAX_ZOOM /\ deltaY < 0
    \/ cam.zoom = MIN_ZOOM /\ deltaY > 0

\* C25: when the zoom asked for lies beyond MIN_ZOOM or MAX_ZOOM the new zoom is
\* the bound and the world point under the anchor is the same after the zoom as
\* before it; when the camera is already at a bound and the delta pushes
\* further past it, the whole camera (x, y, zoom) is unchanged.
C25_ZoomAtBoundConsistent ==
    [][\A e \in WheelEvents :
          (e.ctrlKey /\ HandleWheel(e.p, e.ctrlKey, e.deltaX, e.deltaY))
          => /\ (\/ RLt(RawZoom(camera, e.deltaY), MIN_ZOOM)
                 \/ RLt(MAX_ZOOM, RawZoom(camera, e.deltaY)))
                => /\ AtZoomBound(camera')
                   /\ WorldUnder(e.p, camera') = WorldUnder(e.p, camera)
             /\ PushesPastBound(camera, e.deltaY) => camera' = camera]_vars

C27_KeysKeepPan ==
    [][/\ \A editable \in BOOLEAN, code \in KeyCodes, repeat \in BOOLEAN :
             (isPanning /\ (\/ HandleKeyDown(editable, code, repeat)
                            \/ HandleKeyUp(editable, code)))
             => /\ isPanning'
                /\ cursor = "grabbing" /\ cursor' = "grabbing"
                /\ UNCHANGED <<captured, camera, panStart, pointerStart>>
       /\ \A p \in Points :
             (isPanning /\ p # panStart /\ HandlePointerMove(p))
             => isPanning' /\ camera' # camera
       /\ (isPanning /\ ~isPanning')
             => /\ \E p \in Points, button \in Buttons : HandlePointerUp(p, button)
                /\ cursor' = IF spacePressed THEN "grab" ELSE "default"]_vars

\* the space flag is clear in the middle of a drag pan: space was released
\* during the pan, or the pan was started with the middle button
C27_Witness ==
    /\ isPanning
    /\ captured
    /\ ~spacePressed
    /\ cursor = "grabbing"
    /\ pointerStart = Pt(0, 0)
    /\ panStart = Pt(4, 2)
    /\ nEvents = 1

\* C28: one animation tick does exactly one of two things.  If the distance
\* from the current camera position to the target position is strictly below 1
\* it sets the camera position exactly to the target, calls clearFocusTarget
\* once and schedules no further frame; otherwise (distance >= 1) it moves the
\* camera by 0.1 of the remaining vector, does not clear the target and
\* schedules exactly one next frame.
C28_TickDichotomy ==
    [][\A f \in rafQueue :
          (mounted /\ Tick(f))
          => IF DistanceBelow(RSub(f.tx, camera.x), RSub(f.ty, camera.y), 1)
             THEN /\ camera'.x = f.tx
                  /\ camera'.y = f.ty
                  /\ clearCalls' = clearCalls + 1
                  /\ rafQueue' = rafQueue \ {f}
             ELSE /\ camera'.x = RAdd(camera.x, RMul(RSub(f.tx, camera.x), Norm(1, 10)))
                  /\ camera'.y = RAdd(camera.y, RMul(RSub(f.ty, camera.y), Norm(1, 10)))
                  /\ clearCalls' = clearCalls
                  /\ focusTarget' = focusTarget
                  /\ Cardinality(rafQueue') = Cardinality(rafQueue)
                  /\ \E g \in rafQueue' : g.tx = f.tx /\ g.ty = f.ty]_vars

\* C29: a ctrl-wheel event with deltaY < 0 never decreases camera.zoom and
\* strictly increases it when the camera is below MAX_ZOOM; one with deltaY > 0
\* never increases it and strictly decreases it when the camera is above
\* MIN_ZOOM.
C29_ZoomDirection ==
    [][\A e \in WheelEvents :
          (e.ctrlKey /\ HandleWheel(e.p, e.ctrlKey, e.deltaX, e.deltaY))
          => /\ e.deltaY < 0
                => /\ RLe(camera.zoom, camera'.zoom)
                   /\ RLt(camera.zoom, MAX_ZOOM) => RLt(camera.zoom, camera'.zoom)
             /\ e.deltaY > 0
                => /\ RLe(camera'.zoom, camera.zoom)
                   /\ RLt(MIN_ZOOM, camera.zoom) => RLt(camera'.zoom, camera.zoom)]_vars

\* C30: focusOnThread(id) with the id of an existing thread sets
\* selectedThreadId to id and focusTarget to that thread's world point; with an
\* id no thread has it leaves the store unchanged.  clearFocusTarget (called by
\* a collaborator or by the animator) sets focusTarget to null and changes
\* nothing else.  Neither changes the thread list.
C30_StoreFocus ==
    [][/\ \A id \in ThreadIds :
             FocusOnThread(id)
             => IF id \in 1..Len(threads)
                THEN /\ selectedThreadId' = id
                     /\ focusTarget' = <<threads[id]>>
                     /\ threads' = threads
                ELSE UNCHANGED <<threads, selectedThreadId, focusTarget>>
       /\ (ExternalClearFocusTarget \/ (focusTarget # <<>> /\ focusTarget' = <<>>))
             => /\ focusTarget' = <<>>
                /\ UNCHANGED <<threads, selectedThreadId>>]_vars

\* the thread created by a click at (4, 2) has been focused: it is selected,
\* it is the focus target and the animator has a frame pending
C30_Witness ==
    /\ threads = <<RPt(Pt(4, 2))>>
    /\ selectedThreadId = 1
    /\ focusTarget = <<RPt(Pt(4, 2))>>
    /\ rafQueue # {}

\* C31: the pin of a thread at world (x, y) is placed at
\* ((x - camera.x) * camera.zoom, (y - camera.y) * camera.zoom)
\* = worldToViewport(x, y, camera); consequently the thread created by a click
\* at screen point p is drawn at p under the camera of that moment.
C31_PinAtClickPoint ==
    [][\A p \in Points :
          (/\ ~isPanning
           /\ IsClick(p.x, p.y, pointerStart, 0)
           /\ HandlePointerUp(p, 0))
          => /\ Len(threads') = Len(threads) + 1
             /\ PinPosition(threads'[Len(threads')], camera') = RPt(p)
             /\ \A i \in 1..Len(threads') :
                   PinPosition(threads'[i], camera')
                     = worldToViewport(threads'[i].x, threads'[i].y, camera')]_vars

\* C32: a pointer-down or pointer-up on a comment pin does not reach the canvas
\* gesture handlers: the press changes nothing, the release selects the pin's
\* thread, and neither creates a thread, starts or ends a pan, moves the
\* camera or changes the recorded press point, whatever the button and the
\* space flag.
C32_PinEventsStopped ==
    [][\A i \in 1..Len(threads), p \in Points, button \in Buttons :
          /\ PinPointerDown(i, p, button)
                => UNCHANGED <<threads, selectedThreadId, isPanning, captured, cursor,
                               pointerStart, panStart, camera>>
          /\ PinPointerUp(i, p, button)
                => /\ selectedThreadId' = i
                   /\ UNCHANGED <<threads, isPanning, captured, cursor, pointerStart,
                                   panStart, camera>>]_vars

\* with space held, the pin of the first thread was pressed and released after
\* the second thread had been created: thread 1 is selected, no pan, no third thread
C32_Witness ==
    /\ Len(threads) = 2
    /\ selectedThreadId = 1
    /\ spacePressed
    /\ ~isPanning
    /\ cursor = "grab"

====
